---- MODULE Spec2Model ----
(***************************************************************************)
(* Model of the revenue distribution engine (DistributionEngine.distribute)*)
(* together with its two collaborators, the balance source and the         *)
(* distribution store.                                                     *)
(*                                                                         *)
(* Money is counted in whole cents: revenueAmount = 100 (dollars) is the   *)
(* integer 10000.  A raw share (balance / totalBalance) * revenueAmount is *)
(* the rational num / den with num = balance * revenueAmount and           *)
(* den = totalBalance.  The code evaluates it in binary floating point, so *)
(* a share that is exactly half a cent may come out just below the half:   *)
(* Math.round then yields either neighbour.  fpHalfUp records, per         *)
(* (balance, totalBalance, revenueAmount), which way the evaluation went,  *)
(* so that equal inputs always round alike.                                *)
(***************************************************************************)
EXTENDS Integers, Sequences, FiniteSets, TLC

\* ---------------------------------------------------------------- bounds
MaxRows == 4          \* longest weight list the balance source returns
MaxBal == 1           \* largest balance of a weight row
MaxRev == 2           \* largest revenueAmount in cents, besides TestRevenue
TestRevenue == 10000  \* revenueAmount 100 (dollars) of the engine's tests
MaxRepeatRows == 2
MaxTwiceRows == 1    \* longest weight list when distribute() is invoked twice

Calls == {1, 2}       \* distribute() invocations
InvestorIds == <<"i1", "i2", "i3", "i4", "i5", "i6", "i7", "i8">>
Offerings == {"off-1"}
Periods == {[start |-> 1, end |-> 2]}

Balances == 0..MaxBal
RevenueAmounts == (-1..MaxRev) \cup {TestRevenue}
Null == "null"

RECURSIVE SeqsUpTo(_, _)
SeqsUpTo(S, n) ==
  IF n = 0 THEN {<<>>}
  ELSE LET shorter == SeqsUpTo(S, n - 1)
       IN shorter \cup {Append(s, x) : s \in {t \in shorter : Len(t) = n - 1}, x \in S}

\* constructor arguments: is there a balanceProvider with getBalances, is
\* there an offeringRepo, and which of the two listing methods does it have
EngineConfig ==
  {c \in [balanceProvider : BOOLEAN, offeringRepo : BOOLEAN,
          getInvestors : BOOLEAN, listInvestors : BOOLEAN] :
     ~c.offeringRepo => (~c.getInvestors /\ ~c.listInvestors)}

\* weight lists: any balances, the investors either all different or one
\* investor holding every row
WeightLists ==
  {[i \in 1..Len(b) |-> [investor_id |-> InvestorIds[IF dup THEN 1 ELSE i], balance |-> b[i]]] :
     b \in SeqsUpTo(Balances, MaxRows), dup \in BOOLEAN}

\* what a balance source resolves with: rows, or no array at all
Snapshots ==
  {[missing |-> FALSE, rows |-> s] : s \in WeightLists}
    \cup {[missing |-> TRUE, rows |-> <<>>]}

\* the amounts two invocations over one store are given
RepeatRevenues == {1, TestRevenue}

\* their balance source: a provider resolving with a short weight list
RepeatConfig ==
  [balanceProvider |-> TRUE, offeringRepo |-> FALSE,
   getInvestors |-> FALSE, listInvestors |-> FALSE]

RepeatSnapshots == {s \in Snapshots : ~s.missing /\ Len(s.rows) <= MaxRepeatRows}

NoArgs == [revenueAmount |-> 0]
NoRun == [id |-> 0]

VARIABLES
  cfg,            \* constructor arguments of the engine: which sources exist
  snapshot,       \* what the balance source returns: weight rows, or Null
  runs,           \* distribution_runs table, in insertion order
  payoutRows,     \* payouts table, in insertion order
  fpHalfUp,       \* floating-point outcome at exact half cents, once evaluated
  pc,             \* position of each distribute() invocation
  args,           \* its arguments (offeringId, period, revenueAmount)
  balances,       \* its local `balances`
  rounded,        \* its local `rounded`
  run,            \* its local `run`
  payouts,        \* its local `payouts`
  error,          \* the error it threw
  ioLog,          \* the collaborator methods it called, in order
  handlerRepo,    \* whether createDistributionHandlers was given an offeringRepo
  http,           \* each trigger request: position of the handler, request, response
  submissions,    \* each submitReport() invocation: position, input, error
  reports,        \* revenue_reports table, in insertion order
  idem,           \* each request through the idempotency middleware
  records,        \* InMemoryIdempotencyStore.records: stored response per key
  inFlight,       \* InMemoryIdempotencyStore.inFlight: reserved keys
  hook            \* one WebhookService.deliver() invocation

vars == <<cfg, snapshot, runs, payoutRows, fpHalfUp, pc, args, balances, rounded,
          run, payouts, error, ioLog, handlerRepo, http, submissions, reports,
          idem, records, inFlight, hook>>

\* the state of the distribution engine and its store
engineVars == <<cfg, snapshot, runs, payoutRows, fpHalfUp, pc, args, balances, rounded,
                run, payouts, error, ioLog>>

\* the state outside the engine, which no step of distribute() touches
outside == <<handlerRepo, http, submissions, reports, idem, records, inFlight, hook>>

\* the state of the revenue service and its store
revenueVars == <<submissions, reports>>

\* the state of the idempotency middleware and its store
idemVars == <<idem, records, inFlight>>

\* the state of the webhook delivery
webhookVars == <<hook>>

\* ------------------------------------------------------------ arithmetic
RECURSIVE SumSeq(_)
SumSeq(s) == IF s = <<>> THEN 0 ELSE s[1] + SumSeq(Tail(s))

Abs(x) == IF x < 0 THEN -x ELSE x

\* balances.reduce((s, b) => s + Number(b.balance), 0)
TotalBalance(bals) == SumSeq([i \in 1..Len(bals) |-> bals[i].balance])

\* rawShares: raw = (balance / totalBalance) * revenueAmount, as num / den
RawShares(bals, rev) ==
  [i \in 1..Len(bals) |->
     [investor_id |-> bals[i].investor_id,
      num |-> bals[i].balance * rev,
      den |-> TotalBalance(bals)]]

IsHalf(num, den) == (2 * num) % (2 * den) = den

\* Math.round(raw * 100): nearest cent, an exact half goes up unless the
\* floating-point value of raw * 100 fell below the half (up = FALSE)
RoundCents(num, den, up) ==
  LET q == (2 * num + den) \div (2 * den)
  IN IF IsHalf(num, den) /\ ~up THEN q - 1 ELSE q

\* rounded = rawShares.map(r => Math.round(r.raw * 100) / 100)
RoundShares(raw, up) ==
  [i \in 1..Len(raw) |->
     [investor_id |-> raw[i].investor_id,
      amount |-> RoundCents(raw[i].num, raw[i].den, up[i])]]

\* diff = Math.round((revenueAmount - roundedSum) * 100) / 100
Diff(rnd, rev) == rev - SumSeq([i \in 1..Len(rnd) |-> rnd[i].amount])

\* the loop `for (let i = 1; ...) if (rawShares[i].raw > rawShares[maxIdx].raw) maxIdx = i`
\* (1-based here; all shares have the same denominator)
RECURSIVE MaxIdxLoopLastTie(_, _, _)
MaxIdxLoopLastTie(raw, i, maxIdx) ==
  IF i > Len(raw) THEN maxIdx
  ELSE MaxIdxLoopLastTie(raw, i + 1, IF raw[i].num >= raw[maxIdx].num THEN i ELSE maxIdx)

RECURSIVE MaxIdxLoop(_, _, _)
MaxIdxLoop(raw, i, maxIdx) ==
  IF i > Len(raw) THEN maxIdx
  ELSE MaxIdxLoop(raw, i + 1, IF raw[i].num > raw[maxIdx].num THEN i ELSE maxIdx)

\* as MaxIdx, but the first row is taken without looking at the shares
MaxIdxFirstRow(raw) == 1

MaxIdx(raw) == MaxIdxLoop(raw, 2, 1)

ReconcileAboveOneCent(raw, rnd, rev) ==
  LET diff == Diff(rnd, rev)
  IN IF Abs(diff) > 1
     THEN [rnd EXCEPT ![MaxIdx(raw)].amount = @ + diff]
     ELSE rnd

\* as Reconcile, but the difference goes to the last row
ReconcileOnLastRow(raw, rnd, rev) ==
  LET diff == Diff(rnd, rev)
  IN IF Abs(diff) >= 1
     THEN [rnd EXCEPT ![Len(rnd)].amount = @ + diff]
     ELSE rnd

\* if (Math.abs(diff) >= 0.01) rounded[maxIdx].amount += diff
Reconcile(raw, rnd, rev) ==
  LET diff == Diff(rnd, rev)
  IN IF Abs(diff) >= 1
     THEN [rnd EXCEPT ![MaxIdx(raw)].amount = @ + diff]
     ELSE rnd

\* Number.prototype.toFixed(2) of an amount of whole cents
ToFixed2(cents) ==
  [sign |-> IF cents < 0 THEN "-" ELSE "",
   units |-> Abs(cents) \div 100,
   hundredths |-> Abs(cents) % 100]

\* Number(amountString), in cents
ParseAmount(s) == (IF s.sign = "-" THEN -1 ELSE 1) * (s.units * 100 + s.hundredths)

\* ------------------------------------------------------- balance sources
ChosenSourceUnprobed(c) ==
  IF c.balanceProvider THEN "getBalances"
  ELSE IF c.offeringRepo /\ c.getInvestors THEN "getInvestors"
  ELSE IF c.offeringRepo THEN "listInvestors"
  ELSE Null

\* as ChosenSource, but listInvestors is preferred to getInvestors
ChosenSourceListFirst(c) ==
  IF c.balanceProvider THEN "getBalances"
  ELSE IF c.offeringRepo /\ c.listInvestors THEN "listInvestors"
  ELSE IF c.offeringRepo /\ c.getInvestors THEN "getInvestors"
  ELSE Null

\* the if / else-if chain that picks the acquisition method
ChosenSource(c) ==
  IF c.balanceProvider THEN "getBalances"
  ELSE IF c.offeringRepo /\ c.getInvestors THEN "getInvestors"
  ELSE IF c.offeringRepo /\ c.listInvestors THEN "listInvestors"
  ELSE Null

AcquisitionMethods == {"getBalances", "getInvestors", "listInvestors"}
StoreMethods == {"createDistributionRun", "createPayout"}

\* ------------------------------------------------------------- the store
NewRunRowKeyedByDate(table, input) ==
  [id |-> input.distribution_date,
   offering_id |-> input.offering_id,
   total_amount |-> input.total_amount,
   distribution_date |-> input.distribution_date,
   status |-> IF "status" \in DOMAIN input THEN input.status ELSE "pending"]

\* DistributionRepository.createDistributionRun: the inserted row
NewRunRow(table, input) ==
  [id |-> Len(table) + 1,
   offering_id |-> input.offering_id,
   total_amount |-> input.total_amount,
   distribution_date |-> input.distribution_date,
   status |-> IF "status" \in DOMAIN input THEN input.status ELSE "pending"]

\* DistributionRepository.createPayout: the inserted row
NewPayoutRow(table, input) ==
  [id |-> Len(table) + 1,
   distribution_run_id |-> input.distribution_run_id,
   investor_id |-> input.investor_id,
   amount |-> input.amount,
   status |-> IF "status" \in DOMAIN input THEN input.status ELSE "pending"]

\* ------------------------------------------------------------ the engine
RunInputStartDate(a) ==
  [offering_id |-> a.offeringId,
   total_amount |-> ToFixed2(a.revenueAmount),
   distribution_date |-> a.period.start]

\* the argument of createDistributionRun
RunInput(a) ==
  [offering_id |-> a.offeringId,
   total_amount |-> ToFixed2(a.revenueAmount),
   distribution_date |-> a.period.end]

PayoutInputWrongInvestor(theRun, r) ==
  [distribution_run_id |-> theRun.id,
   investor_id |-> theRun.offering_id,
   amount |-> ToFixed2(r.amount)]

\* as PayoutInput, but the run id is read from the latest run of the store
PayoutInputLatestRun(theRun, r) ==
  [distribution_run_id |-> Len(runs),
   investor_id |-> r.investor_id,
   amount |-> ToFixed2(r.amount)]

\* the argument of the createPayout call for entry r of `rounded`
PayoutInput(theRun, r) ==
  [distribution_run_id |-> theRun.id,
   investor_id |-> r.investor_id,
   amount |-> ToFixed2(r.amount)]

\* payouts.push({ investor_id, amount: amtStr })
PayoutResult(r) == [investor_id |-> r.investor_id, amount |-> ToFixed2(r.amount)]

\* balances whose raw share is an exact half cent
HalfBalances(bals, rev) ==
  {b \in Balances : /\ \E i \in 1..Len(bals) : bals[i].balance = b
                    /\ IsHalf(b * rev, TotalBalance(bals))}

\* the floating-point outcomes still open to the evaluation of these shares
HalfOutcomes(bals, rev) ==
  {h \in [Balances -> BOOLEAN] :
     /\ \A b \in Balances \ HalfBalances(bals, rev) : h[b]
     /\ \A f \in fpHalfUp :
          (f.balance \in HalfBalances(bals, rev) /\ f.total = TotalBalance(bals) /\ f.rev = rev)
            => h[f.balance] = f.up}

HalfFacts(bals, rev, h) ==
  {[balance |-> b, total |-> TotalBalance(bals), rev |-> rev, up |-> h[b]] :
     b \in HalfBalances(bals, rev)}

\* lines 153-171: raw shares, rounding, reconciliation
ComputeRounded(bals, rev, h) ==
  LET raw == RawShares(bals, rev)
  IN Reconcile(raw, RoundShares(raw, [i \in 1..Len(bals) |-> h[bals[i].balance]]), rev)

InvalidAmountNegativeOnly(revenueAmount) == revenueAmount < 0

\* if (revenueAmount <= 0) throw
InvalidAmount(revenueAmount) == revenueAmount <= 0

ValidateBalancesNoEmptyCheck(acquired) ==
  IF TotalBalance(acquired.rows) <= 0 THEN "ZeroTotalBalance"
  ELSE Null

\* the two checks on the acquired balances: the error to throw, or Null
ValidateBalances(acquired) ==
  IF acquired.missing \/ Len(acquired.rows) = 0 THEN "NoInvestors"
  ELSE IF TotalBalance(acquired.rows) <= 0 THEN "ZeroTotalBalance"
  ELSE Null

Throw(c, e) ==
  /\ pc' = [pc EXCEPT ![c] = "failed"]
  /\ error' = [error EXCEPT ![c] = e]

Finished(c) == pc[c] \in {"done", "failed"}

\* ------------------------------------------------------- trigger handler
\* the offerings the handler's offeringRepo knows
OfferingTable == {[id |-> "off-1", issuer_id |-> "s1"]}

NoOffering == [id |-> "", issuer_id |-> ""]

\* offeringRepo.getById(id): the offering, or null
GetById(id) ==
  IF \E o \in OfferingTable : o.id = id
    THEN CHOOSE o \in OfferingTable : o.id = id
    ELSE NoOffering

\* req.user as verifyJWT leaves it: absent, without id, or with id and role
NoUser == [present |-> FALSE, id |-> "", role |-> ""]

Users ==
  {NoUser,
   [present |-> TRUE, id |-> "", role |-> "admin"],
   [present |-> TRUE, id |-> "a1", role |-> "admin"],
   [present |-> TRUE, id |-> "s1", role |-> "startup"],
   [present |-> TRUE, id |-> "s2", role |-> "startup"],
   [present |-> TRUE, id |-> "i1", role |-> "investor"]}

\* req.params.id: missing, an offering of the table, an unknown offering
OfferingParams == {"", "off-1", "off-2"}

\* body.revenue_amount ?? body.revenueAmount: absent, a string that is no
\* number, a numeric string or a number (value in cents)
RawRevenues ==
  {[kind |-> "absent", value |-> 0], [kind |-> "text", value |-> 0]}
    \cup {[kind |-> k, value |-> v] : k \in {"numeral", "number"}, v \in {-1, 0} \cup RepeatRevenues}

\* revenueRaw !== undefined ? Number(revenueRaw) : NaN
NumberOf(raw) ==
  IF raw.kind \in {"absent", "text"}
    THEN [nan |-> TRUE, value |-> 0]
    ELSE [nan |-> FALSE, value |-> raw.value]

\* body.period.start / body.period.end: 0 when absent, else the day
RawStarts == {0, 1}
RawEnds == {0, 2}

Requests ==
  [user : Users, offeringId : OfferingParams, revenue : RawRevenues,
   start : RawStarts, end : RawEnds]

NoRequest ==
  [user |-> NoUser, offeringId |-> "", revenue |-> [kind |-> "absent", value |-> 0],
   start |-> 0, end |-> 0]

\* a handler invocation that has not been called yet
IdleHandler == [pc |-> "idle", req |-> NoRequest, status |-> 0, viaNext |-> FALSE]

\* res.status(code).json(...)
Respond(request, code) ==
  [pc |-> "responded", req |-> request, status |-> code, viaNext |-> FALSE]

\* the handler is suspended at an await
Await(request, at) == [pc |-> at, req |-> request, status |-> 0, viaNext |-> FALSE]

\* an error as distribute() and the repositories throw it: new Error(message)
PlainError(e) == [appError |-> FALSE, statusCode |-> 0, message |-> e]

\* the status the global error handler answers with
ErrorHandlerStatus(err) == IF err.appError THEN err.statusCode ELSE 500

\* catch (err) { return next(err) }, answered by the global error handler
NextError(request, err) ==
  [pc |-> "responded", req |-> request, status |-> ErrorHandlerStatus(err), viaNext |-> TRUE]

\* as EntryDecision, but a user of any role but admin is looked up as issuer
EntryDecisionAnyRole(request) ==
  IF ~request.user.present \/ request.user.id = "" THEN Respond(request, 401)
  ELSE IF request.offeringId = "" THEN Respond(request, 400)
  ELSE IF NumberOf(request.revenue).nan \/ NumberOf(request.revenue).value <= 0
    THEN Respond(request, 400)
  ELSE IF request.start = 0 \/ request.end = 0 THEN Respond(request, 400)
  ELSE IF request.user.role = "admin" \/ request.user.role # "startup"
    THEN Await(request, "invoke")
  ELSE IF ~handlerRepo THEN Respond(request, 403)
  ELSE Await(request, "lookup")

\* triggerDistribution up to its first await
EntryDecision(request) ==
  IF ~request.user.present \/ request.user.id = "" THEN Respond(request, 401)
  ELSE IF request.offeringId = "" THEN Respond(request, 400)
  ELSE IF NumberOf(request.revenue).nan \/ NumberOf(request.revenue).value <= 0
    THEN Respond(request, 400)
  ELSE IF request.start = 0 \/ request.end = 0 THEN Respond(request, 400)
  ELSE IF request.user.role = "admin" THEN Await(request, "invoke")
  ELSE IF request.user.role # "startup" THEN Respond(request, 403)
  ELSE IF ~handlerRepo THEN Respond(request, 403)
  ELSE Await(request, "lookup")

\* triggerDistribution after offeringRepo.getById resolved
LookupDecision(request, offering) ==
  IF offering = NoOffering THEN Respond(request, 404)
  ELSE IF offering.issuer_id # request.user.id THEN Respond(request, 403)
  ELSE Await(request, "invoke")

\* no trigger request received yet
HandlersStart(repos) ==
  /\ handlerRepo \in repos
  /\ http = [q \in Calls |-> IdleHandler]

\* ------------------------------------------------------ revenue service
\* input.amount: a string that is no number, a number followed by other
\* characters, or a numeric string (value in cents)
SubmittedAmounts ==
  {[kind |-> "text", value |-> 0], [kind |-> "prefixed", value |-> 1],
   [kind |-> "numeral", value |-> 0], [kind |-> "numeral", value |-> TestRevenue]}

\* parseFloat(input.amount): the leading number, NaN when there is none
ParseFloat(amount) ==
  IF amount.kind = "text"
    THEN [nan |-> TRUE, value |-> 0]
    ELSE [nan |-> FALSE, value |-> amount.value]

SubmitInputs ==
  [offeringId : {"off-1", "off-2"}, issuerId : {"s1", "s2"}, amount : SubmittedAmounts,
   periodStart : {1}, periodEnd : {1, 2, 3}]

NoInput ==
  [offeringId |-> "", issuerId |-> "", amount |-> [kind |-> "text", value |-> 0],
   periodStart |-> 0, periodEnd |-> 0]

\* a submitReport() invocation that has not been made yet
IdleSubmission == [pc |-> "idle", input |-> NoInput, error |-> Null, report |-> 0]

\* submitReport between the offering lookup and the report lookup
SubmitError(input, offering) ==
  IF offering = NoOffering THEN "OfferingNotFound"
  ELSE IF offering.issuer_id # input.issuerId THEN "Unauthorized"
  ELSE IF ParseFloat(input.amount).nan \/ ParseFloat(input.amount).value <= 0
    THEN "InvalidRevenueAmount"
  ELSE IF input.periodEnd <= input.periodStart THEN "InvalidPeriod"
  ELSE Null

\* revenueReportRepo.findByOfferingAndPeriod: the matching rows
FindByOfferingAndPeriod(table, offeringId, periodStart, periodEnd) ==
  {k \in 1..Len(table) : /\ table[k].offering_id = offeringId
                         /\ table[k].period_start = periodStart
                         /\ table[k].period_end = periodEnd}

\* the row revenueReportRepo.create inserts
NewReportRow(table, input) ==
  [id |-> Len(table) + 1,
   offering_id |-> input.offeringId,
   issuer_id |-> input.issuerId,
   amount |-> input.amount,
   period_start |-> input.periodStart,
   period_end |-> input.periodEnd]

\* no report submitted yet
RevenueStart ==
  /\ submissions = [s \in Calls |-> IdleSubmission]
  /\ reports = <<>>

\* ------------------------------------------- idempotency middleware, data
\* the requests that pass through one middleware instance
IdemRequests == {1, 2, 3}

\* the idempotency keys clients send
Keys == {"k1", "k2"}

\* req.method as received
Methods == {"POST", "patch", "GET"}

\* String.prototype.toUpperCase on a method
ToUpperCase(method) == IF method = "patch" THEN "PATCH" ELSE method

\* the methods the middleware guards by default
DefaultMethods == {"POST", "PATCH"}

\* the Idempotency-Key header as received: absent, or a text with or without
\* surrounding blanks
Headers ==
  {[present |-> FALSE, text |-> "", padded |-> FALSE]}
    \cup [present : {TRUE}, text : Keys, padded : BOOLEAN]

\* req.header(headerName)?.trim(): the text without its blanks, "" when absent
HeaderKey(header) == IF header.present THEN header.text ELSE ""

\* the middleware guards this request
Guarded(method, header) ==
  ToUpperCase(method) \in DefaultMethods /\ HeaderKey(header) # ""

\* the status codes and the response methods the downstream handler uses
HandlerStatuses == {201, 500}
HandlerVias == {"json", "send", "endJson"}

\* what the handler of request q passes to res.json (an object) or res.send
\* (a string); with "endJson" it sets a JSON content type and writes the text
\* itself with res.end(text)
Payload(q, via) ==
  [kind |-> IF via = "json" THEN "object" ELSE IF via = "send" THEN "string" ELSE "none",
   val |-> IF via \in {"json", "send"} THEN q ELSE 0]

\* a string: empty, the JSON text of an object, or a plain text
EmptyBody == [chars |-> "", val |-> 0]
JsonStringify(payload) ==
  IF payload.kind = "none" THEN [chars |-> "json", val |-> 0]
  ELSE [chars |-> "json", val |-> payload.val]

\* serializeBody: a string is kept, undefined is '', anything else is stringified
SerializeBody(payload) ==
  IF payload.kind = "string" THEN [chars |-> "plain", val |-> payload.val]
  ELSE IF payload.kind = "none" THEN EmptyBody
  ELSE JsonStringify(payload)

\* JSON.parse succeeds on this string
Parseable(body) == body.chars = "json"
JsonParse(body) == [kind |-> IF body.val = 0 THEN "none" ELSE "object", val |-> body.val]

\* the body captured by the overridden res.json / res.send; res.end bypasses both
CapturedBody(q, via) ==
  IF via = "json" THEN JsonStringify(Payload(q, via))
  ELSE IF via = "send" THEN SerializeBody(Payload(q, via))
  ELSE EmptyBody

\* the body that goes on the wire
WireBody(q, via) ==
  IF via = "endJson" THEN [chars |-> "json", val |-> q]
  ELSE CapturedBody(q, via)

\* the Content-Type Express sets for the response method
ContentTypeOf(via) ==
  IF via \in {"json", "endJson"} THEN "application/json; charset=utf-8"
  ELSE "text/html; charset=utf-8"

\* contentType.includes('application/json')
IsJson(contentType) == contentType = "application/json; charset=utf-8"

\* no stored response
NoRecord == [status |-> 0, body |-> EmptyBody, contentType |-> ""]

\* default policy: 5xx responses are not stored
ShouldStoreResponse(statusCode) == statusCode < 500

\* InMemoryIdempotencyStore.checkAndReserve: the state it reports for a key
CheckAndReserve(key) ==
  IF records[key] # NoRecord THEN "cached"
  ELSE IF key \in inFlight THEN "inflight"
  ELSE "new"

\* the in-flight set after checkAndReserve
Reserve(key) ==
  IF CheckAndReserve(key) = "new" THEN inFlight \cup {key} ELSE inFlight

\* a release that leaves the reservation in place
ReleaseNothing(key) == inFlight

\* InMemoryIdempotencyStore.release
Release(key) == inFlight \ {key}

\* a save that stores nothing
SaveNothing(key, record) == records

\* InMemoryIdempotencyStore.save: the record map after it
Save(key, record) == [records EXCEPT ![key] = record]

\* a request that has not arrived
IdleRequest ==
  [arrived |-> FALSE, key |-> "", guarded |-> FALSE, reserved |-> FALSE,
   handler |-> "none", response |-> "open", completed |-> FALSE,
   status |-> 0, body |-> EmptyBody, contentType |-> "", idemStatus |-> "",
   responseBody |-> EmptyBody]

\* replayResponse: the stored status, content type and body, marked cached
ReplayResponse(request, record) ==
  [request EXCEPT
     !.idemStatus = "cached",
     !.contentType = record.contentType,
     !.status = record.status,
     !.body = IF IsJson(record.contentType) /\ (record.body = EmptyBody \/ Parseable(record.body))
              THEN IF record.body = EmptyBody
                   THEN JsonStringify([kind |-> "none", val |-> 0])
                   ELSE JsonStringify(JsonParse(record.body))
              ELSE record.body,
     !.response = "ended"]

\* the 409 answer to a request whose key is in flight
InflightResponse(request) ==
  [request EXCEPT
     !.idemStatus = "inflight",
     !.status = 409,
     !.contentType = "application/json; charset=utf-8",
     !.body = [chars |-> "json", val |-> 409],
     !.response = "ended"]

\* what the middleware does with a request on arrival
Admit(method, header) ==
  LET key == HeaderKey(header)
      request == [IdleRequest EXCEPT !.arrived = TRUE,
                                     !.guarded = Guarded(method, header),
                                     !.key = IF Guarded(method, header) THEN key ELSE ""]
  IN IF ~Guarded(method, header) THEN [request EXCEPT !.handler = "running"]
     ELSE IF CheckAndReserve(key) = "cached" THEN ReplayResponse(request, records[key])
     ELSE IF CheckAndReserve(key) = "inflight" THEN InflightResponse(request)
     ELSE [request EXCEPT !.reserved = TRUE, !.handler = "running"]

\* a middleware with an empty store; no request received yet
IdempotencyStart ==
  /\ idem = [q \in IdemRequests |-> IdleRequest]
  /\ records = [k \in Keys |-> NoRecord]
  /\ inFlight = {}

\* ------------------------------------------------ webhook delivery, data
\* the largest maxRetries option explored
MaxWebhookRetries == 3

\* constructor defaults
DefaultMaxRetries == 3
DefaultInitialDelayMs == 1000

\* options.maxRetries: left out, or a number
RetryOptions == {[given |-> FALSE, value |-> 0]} \cup [given : {TRUE}, value : 0..MaxWebhookRetries]

\* this.maxRetries = options.maxRetries ?? 3
MaxRetriesOf(option) == IF option.given THEN option.value ELSE DefaultMaxRetries

\* the status codes the endpoint answers with
FetchStatuses == {200, 204, 304, 404, 429, 500}

\* a rejected fetch (network error, or the abort after timeoutMs) in the outcome log
FetchRejected == 0

\* response.ok
Ok(status) == status >= 200 /\ status <= 299

\* every 4xx, 429 included
NonRetryableAny4xx(status) == status >= 400 /\ status < 500

\* 4xx other than 429
NonRetryable(status) == status >= 400 /\ status < 500 /\ status # 429

\* the wait before attempt number `attempt` (attempt > 1)
BackoffDelay(attempt) == DefaultInitialDelayMs * 2 ^ (attempt - 2)

\* error texts: `HTTP n`, `Non-retryable HTTP n`, a thrown message, the fallback
NoError == [kind |-> "none", status |-> 0]
HttpError(status) == [kind |-> "HTTP", status |-> status]
NonRetryableError(status) == [kind |-> "Non-retryable HTTP", status |-> status]
ThrownError == [kind |-> "thrown", status |-> 0]
MaxRetriesExceeded == [kind |-> "Max retries exceeded", status |-> 0]

NoResult == [success |-> FALSE, attempts |-> 0, statusCode |-> 0, error |-> NoError]

\* deliver() not called yet
IdleDelivery ==
  [pc |-> "idle", maxRetries |-> 0, attempt |-> 0, attempts |-> 0, delay |-> 0,
   lastStatusCode |-> 0, lastError |-> NoError, result |-> NoResult,
   fetches |-> 0, outcomes |-> <<>>]

\* the loop test `attempt <= this.maxRetries`
LoopContinues(attempt, maxRetries) == attempt <= maxRetries

\* the return after the loop
Exhausted(h) ==
  [h EXCEPT !.pc = "returned",
            !.result = [success |-> FALSE, attempts |-> h.attempts,
                        statusCode |-> h.lastStatusCode,
                        error |-> IF h.lastError = NoError THEN MaxRetriesExceeded
                                  ELSE h.lastError]]

\* `attempts = attempt` and the call of fetch
CallFetch(h) ==
  [h EXCEPT !.pc = "fetch", !.attempts = h.attempt, !.fetches = h.fetches + 1]

\* top of the loop for h.attempt: leave the loop, wait, or fetch at once
LoopTop(h) ==
  IF ~LoopContinues(h.attempt, h.maxRetries) THEN Exhausted(h)
  ELSE IF h.attempt > 1 THEN [h EXCEPT !.pc = "delay", !.delay = BackoffDelay(h.attempt)]
  ELSE CallFetch(h)

\* `attempt++` and the top of the loop
NextAttempt(h) == LoopTop([h EXCEPT !.attempt = h.attempt + 1])

\* what deliver() does with a response
OnResponse(h, status) ==
  LET seen == [h EXCEPT !.lastStatusCode = status, !.outcomes = Append(h.outcomes, status)]
  IN IF Ok(status)
     THEN [seen EXCEPT !.pc = "returned",
                       !.result = [success |-> TRUE, attempts |-> h.attempts,
                                   statusCode |-> status, error |-> NoError]]
     ELSE IF NonRetryable(status)
     THEN [seen EXCEPT !.pc = "returned",
                       !.result = [success |-> FALSE, attempts |-> h.attempts,
                                   statusCode |-> status,
                                   error |-> NonRetryableError(status)]]
     ELSE NextAttempt([seen EXCEPT !.lastError = HttpError(status)])

\* no delivery under way
WebhookIdle == hook = IdleDelivery

\* an engine, its balance source and an empty store; no call made yet
Start(configs, snapshots) ==
  /\ cfg \in configs
  /\ snapshot \in snapshots
  /\ runs = <<>>
  /\ payoutRows = <<>>
  /\ fpHalfUp = {}
  /\ pc = [c \in Calls |-> "idle"]
  /\ args = [c \in Calls |-> NoArgs]
  /\ balances = [c \in Calls |-> [missing |-> TRUE, rows |-> <<>>]]
  /\ rounded = [c \in Calls |-> <<>>]
  /\ run = [c \in Calls |-> NoRun]
  /\ payouts = [c \in Calls |-> <<>>]
  /\ error = [c \in Calls |-> Null]
  /\ ioLog = [c \in Calls |-> <<>>]

\* distribute() up to its first await: argument check and source selection
Distribute(c, offeringId, period, revenueAmount) ==
  /\ pc[c] = "idle"
  /\ \A d \in Calls : d < c => pc[d] # "idle"   \* invocations are numbered as they begin
  /\ args' = [args EXCEPT ![c] = [offeringId |-> offeringId, period |-> period,
                                  revenueAmount |-> revenueAmount]]
  /\ IF InvalidAmount(revenueAmount)
       THEN Throw(c, "InvalidAmount") /\ UNCHANGED ioLog
     ELSE IF ChosenSource(cfg) = Null
       THEN Throw(c, "NoBalanceSource") /\ UNCHANGED ioLog
     ELSE /\ pc' = [pc EXCEPT ![c] = "acquire"]
          /\ ioLog' = [ioLog EXCEPT ![c] = Append(@, ChosenSource(cfg))]
          /\ UNCHANGED error
  /\ UNCHANGED outside
  /\ UNCHANGED <<cfg, snapshot, runs, payoutRows, fpHalfUp, balances, rounded, run, payouts>>

\* as BalancesAcquired, but the run is written before the total is checked
BalancesAcquiredPersistFirst(c) ==
  /\ pc[c] = "acquire"
  /\ balances' = [balances EXCEPT ![c] = snapshot]
  /\ IF ValidateBalances(snapshot) = "NoInvestors"
       THEN Throw(c, "NoInvestors") /\ UNCHANGED <<rounded, fpHalfUp, runs, run, ioLog>>
     ELSE IF ValidateBalances(snapshot) = "ZeroTotalBalance"
       THEN /\ runs' = Append(runs, NewRunRow(runs, RunInput(args[c])))
            /\ run' = [run EXCEPT ![c] = NewRunRow(runs, RunInput(args[c]))]
            /\ ioLog' = [ioLog EXCEPT ![c] = Append(@, "createDistributionRun")]
            /\ Throw(c, "ZeroTotalBalance")
            /\ UNCHANGED <<rounded, fpHalfUp>>
     ELSE \E h \in HalfOutcomes(snapshot.rows, args[c].revenueAmount) :
            /\ rounded' = [rounded EXCEPT ![c] =
                             ComputeRounded(snapshot.rows, args[c].revenueAmount, h)]
            /\ fpHalfUp' = fpHalfUp \cup HalfFacts(snapshot.rows, args[c].revenueAmount, h)
            /\ pc' = [pc EXCEPT ![c] = "createRun"]
            /\ UNCHANGED <<error, runs, run, ioLog>>
  /\ UNCHANGED outside
  /\ UNCHANGED <<cfg, snapshot, payoutRows, args, payouts>>

\* the balance source answers: validation and the allocation, up to the
\* createDistributionRun call
BalancesAcquired(c) ==
  /\ pc[c] = "acquire"
  /\ balances' = [balances EXCEPT ![c] = snapshot]
  /\ IF ValidateBalances(snapshot) # Null
       THEN Throw(c, ValidateBalances(snapshot)) /\ UNCHANGED <<rounded, fpHalfUp>>
     ELSE \E h \in HalfOutcomes(snapshot.rows, args[c].revenueAmount) :
            /\ rounded' = [rounded EXCEPT ![c] =
                             ComputeRounded(snapshot.rows, args[c].revenueAmount, h)]
            /\ fpHalfUp' = fpHalfUp \cup HalfFacts(snapshot.rows, args[c].revenueAmount, h)
            /\ pc' = [pc EXCEPT ![c] = "createRun"]
            /\ UNCHANGED error
  /\ UNCHANGED outside
  /\ UNCHANGED <<cfg, snapshot, runs, payoutRows, args, run, payouts, ioLog>>

\* the balance source rejects
BalanceSourceFails(c) ==
  /\ pc[c] = "acquire"
  /\ Throw(c, "SourceFailure")
  /\ UNCHANGED outside
  /\ UNCHANGED <<cfg, snapshot, runs, payoutRows, fpHalfUp, args, balances, rounded, run,
                 payouts, ioLog>>

\* as CreateDistributionRun, but a run of the same offering and date is
\* overwritten instead of a new one being inserted
CreateDistributionRunUpsert(c) ==
  /\ pc[c] = "createRun"
  /\ LET row == NewRunRow(runs, RunInput(args[c]))
         same == {k \in 1..Len(runs) : /\ runs[k].offering_id = row.offering_id
                                       /\ runs[k].distribution_date = row.distribution_date}
     IN IF same = {}
          THEN /\ runs' = Append(runs, row)
               /\ run' = [run EXCEPT ![c] = row]
          ELSE LET k == CHOOSE k \in same : TRUE
               IN /\ runs' = [runs EXCEPT ![k].total_amount = row.total_amount]
                  /\ run' = [run EXCEPT ![c] = [runs[k] EXCEPT !.total_amount = row.total_amount]]
  /\ ioLog' = [ioLog EXCEPT ![c] = Append(@, "createDistributionRun")]
  /\ pc' = [pc EXCEPT ![c] = "createPayout"]
  /\ UNCHANGED outside
  /\ UNCHANGED <<cfg, snapshot, payoutRows, fpHalfUp, args, balances, rounded, payouts, error>>

\* await distributionRepo.createDistributionRun(...)
CreateDistributionRun(c) ==
  /\ pc[c] = "createRun"
  /\ LET row == NewRunRow(runs, RunInput(args[c]))
     IN /\ runs' = Append(runs, row)
        /\ run' = [run EXCEPT ![c] = row]
  /\ ioLog' = [ioLog EXCEPT ![c] = Append(@, "createDistributionRun")]
  /\ pc' = [pc EXCEPT ![c] = "createPayout"]
  /\ UNCHANGED outside
  /\ UNCHANGED <<cfg, snapshot, payoutRows, fpHalfUp, args, balances, rounded, payouts, error>>

CreateDistributionRunFails(c) ==
  /\ pc[c] = "createRun"
  /\ ioLog' = [ioLog EXCEPT ![c] = Append(@, "createDistributionRun")]
  /\ Throw(c, "StoreFailure")
  /\ UNCHANGED outside
  /\ UNCHANGED <<cfg, snapshot, runs, payoutRows, fpHalfUp, args, balances, rounded, run,
                 payouts>>

\* as CreatePayout, but all payouts are written by one Promise.all
CreatePayoutAllAtOnce(c) ==
  /\ pc[c] = "createPayout"
  /\ LET rows == [i \in 1..Len(rounded[c]) |->
                   [NewPayoutRow(payoutRows, PayoutInput(run[c], rounded[c][i]))
                      EXCEPT !.id = Len(payoutRows) + i]]
     IN /\ payoutRows' = payoutRows \o rows
        /\ payouts' = [payouts EXCEPT ![c] = [i \in 1..Len(rounded[c]) |-> PayoutResult(rounded[c][i])]]
        /\ ioLog' = [ioLog EXCEPT ![c] = @ \o [i \in 1..Len(rounded[c]) |-> "createPayout"]]
  /\ pc' = [pc EXCEPT ![c] = "done"]
  /\ UNCHANGED outside
  /\ UNCHANGED <<cfg, snapshot, runs, fpHalfUp, args, balances, rounded, run, error>>

\* one iteration of `for (const r of rounded)`; after the last one, return
CreatePayout(c) ==
  /\ pc[c] = "createPayout"
  /\ LET r == rounded[c][Len(payouts[c]) + 1]
     IN /\ payoutRows' = Append(payoutRows, NewPayoutRow(payoutRows, PayoutInput(run[c], r)))
        /\ payouts' = [payouts EXCEPT ![c] = Append(@, PayoutResult(r))]
  /\ ioLog' = [ioLog EXCEPT ![c] = Append(@, "createPayout")]
  /\ pc' = [pc EXCEPT ![c] = IF Len(payouts[c]) + 1 = Len(rounded[c])
                             THEN "done" ELSE "createPayout"]
  /\ UNCHANGED outside
  /\ UNCHANGED <<cfg, snapshot, runs, fpHalfUp, args, balances, rounded, run, error>>

\* as CreatePayoutFails, but the error is swallowed and the call returns
CreatePayoutFailsSwallowed(c) ==
  /\ pc[c] = "createPayout"
  /\ ioLog' = [ioLog EXCEPT ![c] = Append(@, "createPayout")]
  /\ pc' = [pc EXCEPT ![c] = "done"]
  /\ UNCHANGED outside
  /\ UNCHANGED <<cfg, snapshot, runs, payoutRows, fpHalfUp, args, balances, rounded, run,
                 payouts, error>>

\* as CreatePayoutFails, but the run and its payouts are deleted again
CreatePayoutFailsRollback(c) ==
  /\ pc[c] = "createPayout"
  /\ ioLog' = [ioLog EXCEPT ![c] = Append(@, "createPayout")]
  /\ runs' = SelectSeq(runs, LAMBDA row : row.id # run[c].id)
  /\ payoutRows' = SelectSeq(payoutRows, LAMBDA row : row.distribution_run_id # run[c].id)
  /\ Throw(c, "StoreFailure")
  /\ UNCHANGED outside
  /\ UNCHANGED <<cfg, snapshot, fpHalfUp, args, balances, rounded, run, payouts>>

\* as CreatePayoutFails, but the failed write is issued again
CreatePayoutFailsRetry(c) ==
  /\ pc[c] = "createPayout"
  /\ ioLog' = [ioLog EXCEPT ![c] = Append(@, "createPayout")]
  /\ UNCHANGED outside
  /\ UNCHANGED <<cfg, snapshot, runs, payoutRows, fpHalfUp, pc, args, balances, rounded, run,
                 payouts, error>>

\* as CreatePayoutFails, but the loop goes on with the next row
CreatePayoutFailsSkipped(c) ==
  /\ pc[c] = "createPayout"
  /\ ioLog' = [ioLog EXCEPT ![c] = Append(@, "createPayout")]
  /\ payouts' = [payouts EXCEPT ![c] = Append(@, PayoutResult(rounded[c][Len(payouts[c]) + 1]))]
  /\ pc' = [pc EXCEPT ![c] = IF Len(payouts[c]) + 1 = Len(rounded[c])
                             THEN "done" ELSE "createPayout"]
  /\ UNCHANGED outside
  /\ UNCHANGED <<cfg, snapshot, runs, payoutRows, fpHalfUp, args, balances, rounded, run,
                 error>>

\* await distributionRepo.createPayout(...) rejects
CreatePayoutFails(c) ==
  /\ pc[c] = "createPayout"
  /\ ioLog' = [ioLog EXCEPT ![c] = Append(@, "createPayout")]
  /\ Throw(c, "StoreFailure")
  /\ UNCHANGED outside
  /\ UNCHANGED <<cfg, snapshot, runs, payoutRows, fpHalfUp, args, balances, rounded, run,
                 payouts>>

\* one invocation of distribute(), over every configuration, weight list
\* and amount
Init == Start(EngineConfig, Snapshots) /\ HandlersStart({FALSE}) /\ RevenueStart /\ IdempotencyStart /\ WebhookIdle

Next ==
  \/ \E o \in Offerings, p \in Periods, r \in RevenueAmounts : Distribute(1, o, p, r)
  \/ BalancesAcquired(1)
  \/ BalanceSourceFails(1)
  \/ CreateDistributionRun(1)
  \/ CreateDistributionRunFails(1)
  \/ CreatePayout(1)
  \/ CreatePayoutFails(1)

Spec == Init /\ [][Next]_vars

\* two invocations over one engine and one store, their awaited steps
\* interleaved in any order
InitRepeat == Start({RepeatConfig}, RepeatSnapshots) /\ HandlersStart({FALSE}) /\ RevenueStart /\ IdempotencyStart /\ WebhookIdle

NextRepeat ==
  \E c \in Calls :
    \/ \E o \in Offerings, p \in Periods, r \in RepeatRevenues : Distribute(c, o, p, r)
    \/ BalancesAcquired(c)
    \/ BalanceSourceFails(c)
    \/ CreateDistributionRun(c)
    \/ CreateDistributionRunFails(c)
    \/ CreatePayout(c)
    \/ CreatePayoutFails(c)

SpecRepeat == InitRepeat /\ [][NextRepeat]_vars

\* ------------------------------------------- trigger handler, its steps
\* POST /api/offerings/:id/distribute reaches triggerDistribution
TriggerDistribution(q, request) ==
  /\ http[q].pc = "idle"
  /\ http' = [http EXCEPT ![q] = EntryDecision(request)]
  /\ UNCHANGED handlerRepo
  /\ UNCHANGED engineVars
  /\ UNCHANGED idemVars
  /\ UNCHANGED webhookVars
  /\ UNCHANGED revenueVars

\* await offeringRepo.getById(offeringId) resolves
OfferingLookupReturns(q) ==
  /\ http[q].pc = "lookup"
  /\ http' = [http EXCEPT ![q] = LookupDecision(http[q].req, GetById(http[q].req.offeringId))]
  /\ UNCHANGED handlerRepo
  /\ UNCHANGED engineVars
  /\ UNCHANGED idemVars
  /\ UNCHANGED webhookVars
  /\ UNCHANGED revenueVars

\* await offeringRepo.getById(offeringId) rejects
OfferingLookupFails(q) ==
  /\ http[q].pc = "lookup"
  /\ http' = [http EXCEPT ![q] = NextError(http[q].req, PlainError("LookupFailure"))]
  /\ UNCHANGED handlerRepo
  /\ UNCHANGED engineVars
  /\ UNCHANGED idemVars
  /\ UNCHANGED webhookVars
  /\ UNCHANGED revenueVars

\* distributionEngine.distribute(offeringId, period, revenueAmount) is called
InvokeDistribute(q) ==
  /\ http[q].pc = "invoke"
  /\ Distribute(q, http[q].req.offeringId,
                [start |-> http[q].req.start, end |-> http[q].req.end],
                NumberOf(http[q].req.revenue).value)

\* await distributionEngine.distribute(...) resolves: 200 with the summary
DistributeReturns(q) ==
  /\ http[q].pc = "invoke"
  /\ pc[q] = "done"
  /\ http' = [http EXCEPT ![q] = Respond(http[q].req, 200)]
  /\ UNCHANGED handlerRepo
  /\ UNCHANGED engineVars
  /\ UNCHANGED idemVars
  /\ UNCHANGED webhookVars
  /\ UNCHANGED revenueVars

\* await distributionEngine.distribute(...) rejects: next(err)
DistributeThrows(q) ==
  /\ http[q].pc = "invoke"
  /\ pc[q] = "failed"
  /\ http' = [http EXCEPT ![q] = NextError(http[q].req, PlainError(error[q]))]
  /\ UNCHANGED handlerRepo
  /\ UNCHANGED engineVars
  /\ UNCHANGED idemVars
  /\ UNCHANGED webhookVars
  /\ UNCHANGED revenueVars

\* one request of any shape, handled by the router over a working engine
InitHttp == Start({RepeatConfig}, RepeatSnapshots) /\ HandlersStart(BOOLEAN) /\ RevenueStart /\ IdempotencyStart /\ WebhookIdle

NextHttp ==
  \/ \E request \in Requests : TriggerDistribution(1, request)
  \/ OfferingLookupReturns(1)
  \/ OfferingLookupFails(1)
  \/ InvokeDistribute(1)
  \/ BalancesAcquired(1)
  \/ BalanceSourceFails(1)
  \/ CreateDistributionRun(1)
  \/ CreateDistributionRunFails(1)
  \/ CreatePayout(1)
  \/ CreatePayoutFails(1)
  \/ DistributeReturns(1)
  \/ DistributeThrows(1)

SpecHttp == InitHttp /\ [][NextHttp]_vars

\* requests the handler lets through: an admin or the issuer, for off-1 and
\* the same period
ValidRequests ==
  {request \in Requests :
     /\ request.user.id \in {"a1", "s1"}
     /\ request.offeringId = "off-1"
     /\ request.revenue.kind = "number" /\ request.revenue.value = TestRevenue
     /\ request.start # 0 /\ request.end # 0}

TwiceSnapshots == {s \in RepeatSnapshots : Len(s.rows) <= MaxTwiceRows}

\* two such requests, handled concurrently
InitHttpTwice == Start({RepeatConfig}, TwiceSnapshots) /\ HandlersStart({TRUE}) /\ RevenueStart /\ IdempotencyStart /\ WebhookIdle

NextHttpTwice ==
  \E q \in Calls :
    \/ \E request \in ValidRequests : TriggerDistribution(q, request)
    \/ OfferingLookupReturns(q)
    \/ OfferingLookupFails(q)
    \/ InvokeDistribute(q)
    \/ BalancesAcquired(q)
    \/ BalanceSourceFails(q)
    \/ CreateDistributionRun(q)
    \/ CreateDistributionRunFails(q)
    \/ CreatePayout(q)
    \/ CreatePayoutFails(q)
    \/ DistributeReturns(q)
    \/ DistributeThrows(q)

SpecHttpTwice == InitHttpTwice /\ [][NextHttpTwice]_vars

\* ------------------------------------------- revenue service, its steps
\* a rejected submitReport
Rejected(s, e) == [submissions EXCEPT ![s].pc = "failed", ![s].error = e]

\* submitReport(input) up to its first await
SubmitReport(s, input) ==
  /\ submissions[s].pc = "idle"
  /\ \A t \in Calls : t < s => submissions[t].pc # "idle"
  /\ submissions' = [submissions EXCEPT ![s].pc = "findOffering", ![s].input = input]
  /\ UNCHANGED <<reports, handlerRepo, http>>
  /\ UNCHANGED engineVars
  /\ UNCHANGED idemVars
  /\ UNCHANGED webhookVars

\* await offeringRepo.findById resolves; ownership, amount and period checks
OfferingFound(s) ==
  /\ submissions[s].pc = "findOffering"
  /\ LET input == submissions[s].input
         e == SubmitError(input, GetById(input.offeringId))
     IN submissions' = IF e # Null THEN Rejected(s, e)
                       ELSE [submissions EXCEPT ![s].pc = "findExisting"]
  /\ UNCHANGED <<reports, handlerRepo, http>>
  /\ UNCHANGED engineVars
  /\ UNCHANGED idemVars
  /\ UNCHANGED webhookVars

\* await revenueReportRepo.findByOfferingAndPeriod resolves
ExistingLookedUp(s) ==
  /\ submissions[s].pc = "findExisting"
  /\ LET input == submissions[s].input
         existing == FindByOfferingAndPeriod(reports, input.offeringId,
                                             input.periodStart, input.periodEnd)
     IN submissions' = IF existing # {} THEN Rejected(s, "ReportAlreadyExists")
                       ELSE [submissions EXCEPT ![s].pc = "create"]
  /\ UNCHANGED <<reports, handlerRepo, http>>
  /\ UNCHANGED engineVars
  /\ UNCHANGED idemVars
  /\ UNCHANGED webhookVars

\* await revenueReportRepo.create resolves; the report is returned
CreateReport(s) ==
  /\ submissions[s].pc = "create"
  /\ reports' = Append(reports, NewReportRow(reports, submissions[s].input))
  /\ submissions' = [submissions EXCEPT ![s].pc = "done", ![s].report = Len(reports) + 1]
  /\ UNCHANGED <<handlerRepo, http>>
  /\ UNCHANGED engineVars
  /\ UNCHANGED idemVars
  /\ UNCHANGED webhookVars

\* one of the awaited repository calls rejects
RepositoryFails(s) ==
  /\ submissions[s].pc \in {"findOffering", "findExisting", "create"}
  /\ submissions' = Rejected(s, "StoreFailure")
  /\ UNCHANGED <<reports, handlerRepo, http>>
  /\ UNCHANGED engineVars
  /\ UNCHANGED idemVars
  /\ UNCHANGED webhookVars

\* two submitReport() calls over one service and one store
InitRevenue == Start({RepeatConfig}, {[missing |-> FALSE, rows |-> <<>>]})
                 /\ HandlersStart({FALSE}) /\ RevenueStart /\ IdempotencyStart /\ WebhookIdle

NextRevenue ==
  \E s \in Calls :
    \/ \E input \in SubmitInputs : SubmitReport(s, input)
    \/ OfferingFound(s)
    \/ ExistingLookedUp(s)
    \/ CreateReport(s)
    \/ RepositoryFails(s)

SpecRevenue == InitRevenue /\ [][NextRevenue]_vars

\* ------------------------------------- idempotency middleware, its steps
\* a request reaches the middleware: method and key checks, checkAndReserve,
\* then a replay, a 409, or the hooks and next()
RequestArrives(q, method, header) ==
  /\ ~idem[q].arrived
  /\ \A p \in IdemRequests : p < q => idem[p].arrived
  /\ idem' = [idem EXCEPT ![q] = Admit(method, header)]
  /\ inFlight' = IF Guarded(method, header) THEN Reserve(HeaderKey(header)) ELSE inFlight
  /\ UNCHANGED records
  /\ UNCHANGED <<handlerRepo, http, hook>>
  /\ UNCHANGED revenueVars
  /\ UNCHANGED engineVars

\* the downstream handler answers with res.status(status) and json, send or end
HandlerResponds(q, status, via) ==
  /\ idem[q].handler = "running"
  /\ idem' = [idem EXCEPT ![q] =
       IF idem[q].response = "open"
       THEN [@ EXCEPT !.handler = "returned", !.response = "ended", !.status = status,
                      !.body = WireBody(q, via), !.contentType = ContentTypeOf(via),
                      !.responseBody = IF idem[q].reserved THEN CapturedBody(q, via)
                                       ELSE EmptyBody]
       ELSE [@ EXCEPT !.handler = "returned"]]
  /\ UNCHANGED <<records, inFlight>>
  /\ UNCHANGED <<handlerRepo, http, hook>>
  /\ UNCHANGED revenueVars
  /\ UNCHANGED engineVars

\* 'finish': the response has been handed to the network; the hook of a
\* reserving request stores the response or releases the key
ResponseFinishes(q) ==
  /\ idem[q].response = "ended"
  /\ ~idem[q].completed
  /\ idem' = [idem EXCEPT ![q].completed = TRUE]
  /\ IF ~idem[q].reserved
     THEN UNCHANGED <<records, inFlight>>
     ELSE IF ~ShouldStoreResponse(idem[q].status)
          THEN inFlight' = Release(idem[q].key) /\ UNCHANGED records
          ELSE /\ inFlight' = Release(idem[q].key)
               /\ records' = Save(idem[q].key,
                                  [status |-> idem[q].status,
                                   body |-> idem[q].responseBody,
                                   contentType |-> idem[q].contentType])
  /\ UNCHANGED <<handlerRepo, http, hook>>
  /\ UNCHANGED revenueVars
  /\ UNCHANGED engineVars

\* 'close': the connection is gone, after the response finished or before;
\* the hook of a reserving request releases the key unless 'finish' came first
ConnectionCloses(q) ==
  /\ idem[q].arrived
  /\ idem[q].response # "closed"
  /\ idem' = [idem EXCEPT ![q].response = "closed"]
  /\ inFlight' = IF idem[q].reserved /\ ~idem[q].completed
                 THEN Release(idem[q].key) ELSE inFlight
  /\ UNCHANGED records
  /\ UNCHANGED <<handlerRepo, http, hook>>
  /\ UNCHANGED revenueVars
  /\ UNCHANGED engineVars

\* three requests through one middleware with the default in-memory store
InitIdem == Start({RepeatConfig}, {[missing |-> FALSE, rows |-> <<>>]})
              /\ HandlersStart({FALSE}) /\ RevenueStart /\ IdempotencyStart /\ WebhookIdle

NextIdem ==
  \E q \in IdemRequests :
    \/ \E method \in Methods, header \in Headers : RequestArrives(q, method, header)
    \/ \E status \in HandlerStatuses, via \in HandlerVias : HandlerResponds(q, status, via)
    \/ ResponseFinishes(q)
    \/ ConnectionCloses(q)

SpecIdem == InitIdem /\ [][NextIdem]_vars

\* ------------------------------------------------ webhook delivery, steps
\* deliver(endpoint, payload) is called on a service built with this option
Deliver(option) ==
  /\ hook.pc = "idle"
  /\ hook' = LoopTop([IdleDelivery EXCEPT !.pc = "loop", !.attempt = 1,
                                          !.maxRetries = MaxRetriesOf(option)])
  /\ UNCHANGED <<handlerRepo, http>>
  /\ UNCHANGED revenueVars
  /\ UNCHANGED idemVars
  /\ UNCHANGED engineVars

\* the backoff timer fires
DelayElapsed ==
  /\ hook.pc = "delay"
  /\ hook' = CallFetch(hook)
  /\ UNCHANGED <<handlerRepo, http>>
  /\ UNCHANGED revenueVars
  /\ UNCHANGED idemVars
  /\ UNCHANGED engineVars

\* fetch resolves with a response
FetchResolves(status) ==
  /\ hook.pc = "fetch"
  /\ hook' = OnResponse(hook, status)
  /\ UNCHANGED <<handlerRepo, http>>
  /\ UNCHANGED revenueVars
  /\ UNCHANGED idemVars
  /\ UNCHANGED engineVars

\* fetch rejects: a network error, or the abort when timeoutMs has passed
FetchRejects ==
  /\ hook.pc = "fetch"
  /\ hook' = NextAttempt([hook EXCEPT !.lastError = ThrownError,
                                      !.outcomes = Append(hook.outcomes, FetchRejected)])
  /\ UNCHANGED <<handlerRepo, http>>
  /\ UNCHANGED revenueVars
  /\ UNCHANGED idemVars
  /\ UNCHANGED engineVars

\* one delivery to one endpoint
InitWebhook == Start({RepeatConfig}, {[missing |-> FALSE, rows |-> <<>>]})
                 /\ HandlersStart({FALSE}) /\ RevenueStart /\ IdempotencyStart /\ WebhookIdle

NextWebhook ==
  \/ \E option \in RetryOptions : Deliver(option)
  \/ DelayElapsed
  \/ \E status \in FetchStatuses : FetchResolves(status)
  \/ FetchRejects

\* timers fire and every fetch settles (timeoutMs aborts a pending one), so a
\* delivery that can take a step eventually takes one
SpecWebhook == InitWebhook /\ [][NextWebhook]_vars /\ WF_vars(NextWebhook)

\* the value distribute() resolves with
Result(c) == [distributionRun |-> run[c], payouts |-> payouts[c]]

\* ----------------------------------------------------------- properties
\* the rows of the payouts table that reference run id, in insertion order
PayoutsOfRun(id) == SelectSeq(payoutRows, LAMBDA row : row.distribution_run_id = id)

\* the amounts of a list of payouts, in cents
AmountsOf(ps) == [i \in 1..Len(ps) |-> ParseAmount(ps[i].amount)]

Succeeded(c) == pc[c] = "done"

\* C1 - sum conservation: after a successful distribute() the amounts of the
\* payouts created for its run, and of the payouts it returns, add up to
\* revenueAmount, which is also the run's total_amount
SumConservation ==
  \A c \in Calls :
    Succeeded(c) =>
      /\ SumSeq(AmountsOf(PayoutsOfRun(run[c].id))) = args[c].revenueAmount
      /\ SumSeq(AmountsOf(payouts[c])) = args[c].revenueAmount
      /\ ParseAmount(run[c].total_amount) = args[c].revenueAmount

\* a successful call whose shares, a third of 100.00 each, had to be reconciled
SumConservationWitness ==
  \E c \in Calls :
    /\ Succeeded(c)
    /\ args[c].revenueAmount = TestRevenue
    /\ Len(payouts[c]) = 3
    /\ \A i \in 1..3 : balances[c].rows[i].balance = 1
    /\ payouts[c][1].amount # payouts[c][2].amount

\* C2 - non-negativity: every payout of a successful distribute() over
\* non-negative balances is >= 0
NonNegativePayouts ==
  \A c \in Calls :
    Succeeded(c) =>
      /\ \A i \in 1..Len(payouts[c]) : ParseAmount(payouts[c][i].amount) >= 0
      /\ \A i \in 1..Len(PayoutsOfRun(run[c].id)) :
           ParseAmount(PayoutsOfRun(run[c].id)[i].amount) >= 0

\* how the evaluation of balance / total * rev * 100 resolved an exact half
FpUp(b, total, rev) ==
  \A f \in fpHalfUp : (f.balance = b /\ f.total = total /\ f.rev = rev) => f.up

\* each share of a call rounded on its own, before any reconciliation
IndependentlyRounded(c) ==
  LET bals == balances[c].rows
      rev == args[c].revenueAmount
      total == TotalBalance(bals)
  IN [i \in 1..Len(bals) |->
        RoundCents(bals[i].balance * rev, total, FpUp(bals[i].balance, total, rev))]

\* the earliest row among those with the largest raw share
EarliestLargest(c) ==
  LET bals == balances[c].rows
      rev == args[c].revenueAmount
  IN CHOOSE m \in 1..Len(bals) :
       /\ \A j \in 1..Len(bals) : bals[j].balance * rev <= bals[m].balance * rev
       /\ \A j \in 1..(m - 1) : bals[j].balance * rev < bals[m].balance * rev

Count(log, m) == Cardinality({i \in 1..Len(log) : log[i] = m})

StoreCalls(c) == Count(ioLog[c], "createDistributionRun") + Count(ioLog[c], "createPayout")

\* call c has left nothing in the store: every row belongs to another call
NothingPersistedBy(c) ==
  /\ StoreCalls(c) = 0
  /\ run[c] = NoRun
  /\ payouts[c] = <<>>
  /\ Len(runs) = Cardinality({d \in Calls \ {c} : run[d] # NoRun})
  /\ Len(payoutRows) = SumSeq([d \in 1..Cardinality(Calls) |-> IF d = c THEN 0 ELSE Len(payouts[d])])

\* C4 - a call with revenueAmount <= 0 fails with the invalid-amount error and
\* has called no balance source method and no store method, whatever sources
\* are configured (also when none is)
InvalidAmountBeforeIO ==
  \A c \in Calls :
    (pc[c] # "idle" /\ args[c].revenueAmount <= 0) =>
      /\ pc[c] = "failed"
      /\ error[c] = "InvalidAmount"
      /\ ioLog[c] = <<>>
      /\ NothingPersistedBy(c)

\* revenueAmount 0 rejected as invalid although no balance source exists
InvalidAmountBeforeIOWitness ==
  \E c \in Calls :
    /\ error[c] = "InvalidAmount"
    /\ args[c].revenueAmount = 0
    /\ ~cfg.balanceProvider /\ ~cfg.offeringRepo

\* C5 - acquired weights that are non-empty and sum to zero make the call fail
\* with the zero-total-balance error, with no run and no payout created
ZeroTotalBalanceRejected ==
  \A c \in Calls :
    (balances[c].rows # <<>> /\ TotalBalance(balances[c].rows) = 0) =>
      /\ pc[c] = "failed"
      /\ error[c] = "ZeroTotalBalance"
      /\ NothingPersistedBy(c)

\* a call over two rows of balance 0 has failed
ZeroTotalBalanceRejectedWitness ==
  \E c \in Calls :
    /\ error[c] = "ZeroTotalBalance"
    /\ args[c].revenueAmount > 0
    /\ Len(balances[c].rows) = 2

\* the balance source of call c has answered
Answered(c) == pc[c] \notin {"idle", "acquire"} /\ ioLog[c] # <<>> /\ error[c] # "SourceFailure"

\* C6 - an empty or missing weight list makes the call fail with the
\* no-investors error after exactly one acquisition call and no store call
NoInvestorsRejected ==
  \A c \in Calls :
    (Answered(c) /\ (balances[c].missing \/ balances[c].rows = <<>>)) =>
      /\ pc[c] = "failed"
      /\ error[c] = "NoInvestors"
      /\ Len(ioLog[c]) = 1
      /\ ioLog[c][1] \in AcquisitionMethods
      /\ NothingPersistedBy(c)

\* the source answered with an empty array and the call has failed
NoInvestorsRejectedWitness ==
  \E c \in Calls :
    /\ Answered(c)
    /\ ~balances[c].missing /\ balances[c].rows = <<>>
    /\ error[c] = "NoInvestors"

\* C7 - with no balance source configured, a call with a positive
\* revenueAmount fails with the no-balance-source error, having called nothing
NoBalanceSourceRejected ==
  \A c \in Calls :
    ( /\ pc[c] # "idle"
      /\ args[c].revenueAmount > 0
      /\ ~cfg.balanceProvider
      /\ (~cfg.offeringRepo \/ (~cfg.getInvestors /\ ~cfg.listInvestors)) ) =>
      /\ pc[c] = "failed"
      /\ error[c] = "NoBalanceSource"
      /\ ioLog[c] = <<>>
      /\ NothingPersistedBy(c)

\* an offeringRepo without either listing method, and the call has failed
NoBalanceSourceRejectedWitness ==
  \E c \in Calls :
    /\ error[c] = "NoBalanceSource"
    /\ cfg.offeringRepo
    /\ args[c].revenueAmount > 0

\* C8 - a successful call over n weight rows made n createPayout calls after
\* its createDistributionRun call; the i-th created payout and the i-th
\* returned payout carry the investor of the i-th row, and the created payouts
\* reference the run of this call
OnePayoutPerRow ==
  \A c \in Calls :
    Succeeded(c) =>
      LET rows == balances[c].rows
          n == Len(rows)
          created == PayoutsOfRun(run[c].id)
      IN /\ Len(payouts[c]) = n
         /\ Len(created) = n
         /\ \A i \in 1..n : /\ payouts[c][i].investor_id = rows[i].investor_id
                            /\ created[i].investor_id = rows[i].investor_id
                            /\ created[i].amount = payouts[c][i].amount
         /\ Len(ioLog[c]) = n + 2
         /\ ioLog[c][1] \in AcquisitionMethods
         /\ ioLog[c][2] = "createDistributionRun"
         /\ \A i \in 3..(n + 2) : ioLog[c][i] = "createPayout"
         /\ \E k \in 1..Len(runs) : runs[k] = run[c]

\* a successful call over rows of one investor, one of them with balance 0
OnePayoutPerRowWitness ==
  \E c \in Calls :
    /\ Succeeded(c)
    /\ Len(balances[c].rows) >= 3
    /\ balances[c].rows[1].investor_id = balances[c].rows[2].investor_id
    /\ \E i \in 1..Len(balances[c].rows) : balances[c].rows[i].balance = 0

ValidationErrors == {"InvalidAmount", "NoBalanceSource", "NoInvestors", "ZeroTotalBalance"}

\* C9 - a successful call made one createDistributionRun call and the store
\* holds one run with its id, carrying offeringId, revenueAmount to 2 decimals,
\* period.end and status pending; a call that failed validation made none
OneRunPerSuccess ==
  /\ Len(runs) = Cardinality({d \in Calls : run[d] # NoRun})
  /\ \A c \in Calls :
       /\ Succeeded(c) =>
            /\ Count(ioLog[c], "createDistributionRun") = 1
            /\ Cardinality({k \in 1..Len(runs) : runs[k].id = run[c].id}) = 1
            /\ \A k \in 1..Len(runs) :
                 runs[k].id = run[c].id =>
                   /\ runs[k] = run[c]
                   /\ runs[k].offering_id = args[c].offeringId
                   /\ runs[k].total_amount =
                        [sign |-> "", units |-> args[c].revenueAmount \div 100,
                         hundredths |-> args[c].revenueAmount % 100]
                   /\ runs[k].distribution_date = args[c].period.end
                   /\ runs[k].status = "pending"
       /\ error[c] \in ValidationErrors =>
            /\ Count(ioLog[c], "createDistributionRun") = 0
            /\ run[c] = NoRun

\* a call has succeeded with 100.00 and the store holds its run
OneRunPerSuccessWitness ==
  \E c \in Calls :
    /\ Succeeded(c)
    /\ args[c].revenueAmount = TestRevenue
    /\ Len(runs) = 1
    /\ runs[1].total_amount.units = 100

\* C10 - no self-idempotency: after a successful call, a second call with the
\* same arguments is not rejected, and when it succeeds the store holds two
\* runs with different ids, each with its own n payouts of the same amounts
NoSelfIdempotency ==
  \A c, d \in Calls :
    (c # d /\ Succeeded(c) /\ Finished(d) /\ args[d] = args[c]) =>
      /\ error[d] \in {Null, "SourceFailure", "StoreFailure"}
      /\ Succeeded(d) =>
           /\ run[c].id # run[d].id
           /\ \E k \in 1..Len(runs) : runs[k] = run[c]
           /\ \E k \in 1..Len(runs) : runs[k] = run[d]
           /\ Len(PayoutsOfRun(run[c].id)) = Len(balances[c].rows)
           /\ Len(PayoutsOfRun(run[d].id)) = Len(balances[d].rows)
           /\ AmountsOf(PayoutsOfRun(run[c].id)) = AmountsOf(PayoutsOfRun(run[d].id))
           /\ payouts[c] = payouts[d]

\* two successful calls with the same arguments over two weight rows
NoSelfIdempotencyWitness ==
  \E c, d \in Calls :
    /\ c # d
    /\ Succeeded(c) /\ Succeeded(d)
    /\ args[c] = args[d]
    /\ Len(balances[c].rows) = 2
    /\ Len(runs) = 2
    /\ Len(payoutRows) = 4

\* the investor and amount of each row of a list of payout rows
Summaries(rows) ==
  [i \in 1..Len(rows) |-> [investor_id |-> rows[i].investor_id, amount |-> rows[i].amount]]

EnvironmentErrors == {"SourceFailure", "StoreFailure"}

\* C11 - two concurrent calls never block or reject each other: whatever the
\* other call is doing, a call that waits for a collaborator can take its
\* step and fails only for its own input or a failing collaborator; runs have
\* different ids, every payout row belongs to the run of the call that wrote
\* it, and the payouts of a completed run sum to its total_amount
ConcurrentRunsIndependent ==
  /\ \A c \in Calls :
       /\ pc[c] = "acquire" => ENABLED BalancesAcquired(c)
       /\ pc[c] = "createRun" => ENABLED CreateDistributionRun(c)
       /\ pc[c] = "createPayout" => ENABLED CreatePayout(c)
       /\ error[c] \in {Null} \cup ValidationErrors \cup EnvironmentErrors
       /\ run[c] # NoRun =>
            /\ \E k \in 1..Len(runs) : runs[k] = run[c]
            /\ Summaries(PayoutsOfRun(run[c].id)) = payouts[c]
       /\ Succeeded(c) =>
            /\ Len(PayoutsOfRun(run[c].id)) = Len(balances[c].rows)
            /\ SumSeq(AmountsOf(PayoutsOfRun(run[c].id))) = ParseAmount(run[c].total_amount)
  /\ \A c, d \in Calls : (c # d /\ run[c] # NoRun /\ run[d] # NoRun) => run[c].id # run[d].id
  /\ \A i \in 1..Len(payoutRows) :
       \E c \in Calls : run[c] # NoRun /\ payoutRows[i].distribution_run_id = run[c].id

\* both calls completed and their payout writes alternated in the store
ConcurrentRunsIndependentWitness ==
  /\ \A c \in Calls : Succeeded(c)
  /\ Len(payoutRows) = 4
  /\ payoutRows[1].distribution_run_id # payoutRows[2].distribution_run_id
  /\ payoutRows[2].distribution_run_id # payoutRows[3].distribution_run_id

\* what the caller of distribute() gets
Outcome(c) ==
  IF pc[c] = "done" THEN [kind |-> "result", payouts |-> Len(Result(c).payouts)]
  ELSE IF pc[c] = "failed" THEN [kind |-> "error", payouts |-> 0]
  ELSE [kind |-> "pending", payouts |-> 0]

\* C12 - a call ends with a result holding all n payouts or with an error:
\* a result never has fewer payouts than weight rows, and after a failed
\* store call the caller has the error, not a result
ResultOrError ==
  \A c \in Calls :
    /\ Outcome(c).kind = "result" =>
         /\ error[c] = Null
         /\ run[c] # NoRun
         /\ Outcome(c).payouts = Len(balances[c].rows)
         /\ Count(ioLog[c], "createPayout") = Len(balances[c].rows)
    /\ Outcome(c).kind = "error" <=> error[c] # Null
    /\ (Count(ioLog[c], "createPayout") > Len(payouts[c])) => Outcome(c).kind = "error"

\* the second createPayout call failed: the caller has the error
ResultOrErrorWitness ==
  \E c \in Calls :
    /\ error[c] = "StoreFailure"
    /\ Len(payouts[c]) = 1
    /\ Len(balances[c].rows) >= 2
    /\ Outcome(c).kind = "error"

\* C13 - when the k-th createPayout call fails after the run was created, the
\* call has failed and the store holds the run with exactly the payouts of
\* the first k - 1 rows; nothing is deleted or updated to compensate
PartialRunLeftBehind ==
  \A c \in Calls :
    (error[c] = "StoreFailure" /\ run[c] # NoRun) =>
      LET k == Count(ioLog[c], "createPayout")
          left == PayoutsOfRun(run[c].id)
      IN /\ pc[c] = "failed"
         /\ 1 <= k /\ k <= Len(balances[c].rows)
         /\ \E j \in 1..Len(runs) : runs[j] = run[c]
         /\ Len(left) = k - 1
         /\ \A i \in 1..(k - 1) :
              /\ left[i].investor_id = balances[c].rows[i].investor_id
              /\ left[i].amount = ToFixed2(rounded[c][i].amount)

\* a failed call has left a run whose payouts do not sum to its total_amount
PartialRunLeftBehindWitness ==
  \E c \in Calls :
    /\ error[c] = "StoreFailure"
    /\ run[c] # NoRun
    /\ Len(PayoutsOfRun(run[c].id)) >= 1
    /\ SumSeq(AmountsOf(PayoutsOfRun(run[c].id))) # ParseAmount(run[c].total_amount)

\* C14 - no retries: a failing collaborator call is the last call of the
\* invocation and its error is the error of the invocation; no acquisition
\* or createDistributionRun call is made twice, and no createPayout call is
\* made twice for the same row
NoRetries ==
  \A c \in Calls :
    LET log == ioLog[c]
        made == Len(payouts[c]) + (IF error[c] = "StoreFailure" /\ run[c] # NoRun THEN 1 ELSE 0)
    IN /\ Cardinality({i \in 1..Len(log) : log[i] \in AcquisitionMethods}) <= 1
       /\ Count(log, "createDistributionRun") <= 1
       /\ Count(log, "createPayout") = made
       /\ error[c] = "SourceFailure" =>
            pc[c] = "failed" /\ Len(log) = 1 /\ log[1] \in AcquisitionMethods
       /\ error[c] = "StoreFailure" =>
            pc[c] = "failed" /\ log[Len(log)] \in StoreMethods
       /\ (error[c] = "StoreFailure" /\ run[c] = NoRun) =>
            Len(log) = 2 /\ log[2] = "createDistributionRun"

\* the second createPayout call failed and was the last call made
NoRetriesWitness ==
  \E c \in Calls :
    /\ error[c] = "StoreFailure"
    /\ Len(payouts[c]) = 1
    /\ Len(ioLog[c]) = 4
    /\ ioLog[c][4] = "createPayout"

\* C15 - the payouts a successful call returns are the records the store
\* created: the i-th one is the row the i-th createPayout call inserted,
\* with its id and distribution_run_id
ReturnsCreatedRecords ==
  \A c \in Calls :
    Succeeded(c) =>
      LET created == PayoutsOfRun(run[c].id)
      IN /\ Len(Result(c).payouts) = Len(created)
         /\ \A i \in 1..Len(created) :
              /\ DOMAIN Result(c).payouts[i] = DOMAIN created[i]
              /\ Result(c).payouts[i].investor_id = created[i].investor_id
              /\ Result(c).payouts[i].amount = created[i].amount

IsPrefix(s, t) == Len(s) <= Len(t) /\ SubSeq(t, 1, Len(s)) = s

\* C16 - write-once: every step leaves the existing runs and payouts as they
\* are and at most appends rows
WriteOnce == [][IsPrefix(runs, runs') /\ IsPrefix(payoutRows, payoutRows')]_vars

\* a call wrote its rows after another call had left a partial run behind
WriteOnceWitness ==
  \E c, d \in Calls :
    /\ error[c] = "StoreFailure" /\ run[c] # NoRun /\ Len(payouts[c]) = 1
    /\ Succeeded(d)
    /\ run[c].id < run[d].id
    /\ args[c].revenueAmount # args[d].revenueAmount

\* the conditions under which a trigger request may start a distribution
Permitted(request) ==
  /\ request.user.present /\ request.user.id # ""
  /\ ~NumberOf(request.revenue).nan /\ NumberOf(request.revenue).value > 0
  /\ request.start # 0 /\ request.end # 0
  /\ \/ request.user.role = "admin"
     \/ /\ request.user.role = "startup"
        /\ \E o \in OfferingTable :
             o.id = request.offeringId /\ o.issuer_id = request.user.id

\* distribute() was called for request q
Invoked(q) == pc[q] # "idle"

ClientErrors == {400, 401, 403, 404}

\* C17 as claimed - distribute() is called only for a permitted request, and
\* every other request is answered 401, 400, 403 or 404
TriggerGuards ==
  \A q \in Calls :
    /\ Invoked(q) => Permitted(http[q].req)
    /\ (http[q].pc = "responded" /\ ~Permitted(http[q].req)) =>
         ~Invoked(q) /\ http[q].status \in ClientErrors

\* C17 - distribute() is called only for a permitted request; every other
\* request is answered 401, 400, 403 or 404 by the handler, or, when the
\* offering lookup itself fails, handed to next() without distribute()
\* being called
TriggerGuardsOrLookupFailure ==
  \A q \in Calls :
    /\ Invoked(q) => Permitted(http[q].req)
    /\ (http[q].pc = "responded" /\ ~Permitted(http[q].req)) =>
         /\ ~Invoked(q)
         /\ \/ ~http[q].viaNext /\ http[q].status \in ClientErrors
            \/ http[q].viaNext /\ http[q].req.user.role = "startup" /\ handlerRepo

\* the issuer of the offering was looked up and distribute() was called
TriggerGuardsWitness ==
  \E q \in Calls :
    /\ http[q].req.user.role = "startup"
    /\ Invoked(q)
    /\ http[q].pc = "responded"

\* C18 - two trigger requests for the same offering and period never both
\* reach distribute()
OneDistributionPerPeriod ==
  \A q1, q2 \in Calls :
    (q1 # q2 /\ Invoked(q1) /\ Invoked(q2)) =>
      \/ http[q1].req.offeringId # http[q2].req.offeringId
      \/ http[q1].req.start # http[q2].req.start
      \/ http[q1].req.end # http[q2].req.end

\* C19 - a request whose distribute() call failed on validation is answered
\* 4xx, one whose call failed in the store is answered 5xx
ErrorStatusByCause ==
  \A q \in Calls :
    (http[q].pc = "responded" /\ pc[q] = "failed") =>
      /\ error[q] \in ValidationErrors => http[q].status \in 400..499
      /\ error[q] = "StoreFailure" => http[q].status \in 500..599

\* the offering and period a report row is for
ReportKey(row) == <<row.offering_id, row.period_start, row.period_end>>

\* C20 - the store never holds two reports for the same offering and period,
\* and a call rejected with 'Revenue report already exists' created nothing
OneReportPerPeriod ==
  /\ \A i, j \in 1..Len(reports) :
       i # j => ReportKey(reports[i]) # ReportKey(reports[j])
  /\ \A s \in Calls :
       submissions[s].error = "ReportAlreadyExists" => submissions[s].report = 0

\* the store writes call c has completed
StoreWrites(c) ==
  Cardinality({k \in 1..Len(runs) : runs[k] = run[c]}) + Len(PayoutsOfRun(run[c].id))

\* C24 - I/O ordering within one call: a store call is made only after the
\* weights were acquired, createPayout only after createDistributionRun has
\* completed, one createPayout per step and each after the previous one has
\* completed, and a call succeeds only with 1 run write and n payout writes
\* completed
IoOrdering ==
  [][\A c \in Calls :
       /\ StoreCalls(c)' > StoreCalls(c) =>
            /\ pc[c] \in {"createRun", "createPayout"}
            /\ ~balances[c].missing
            /\ StoreCalls(c)' = StoreCalls(c) + 1
       /\ Count(ioLog'[c], "createPayout") > Count(ioLog[c], "createPayout") =>
            /\ pc[c] = "createPayout"
            /\ run[c] # NoRun
            /\ \E k \in 1..Len(runs) : runs[k] = run[c]
            /\ Len(PayoutsOfRun(run[c].id)) = Count(ioLog[c], "createPayout")
       /\ (pc'[c] = "done" /\ pc[c] # "done") =>
            /\ Count(ioLog'[c], "createDistributionRun") = 1
            /\ Count(ioLog'[c], "createPayout") = Len(balances[c].rows)
            /\ StoreWrites(c)' = Len(balances[c].rows) + 1
     ]_vars

\* a call over three weight rows has succeeded after 4 store writes
IoOrderingWitness ==
  \E c \in Calls :
    /\ Succeeded(c)
    /\ Len(balances[c].rows) = 3
    /\ StoreWrites(c) = 4
    /\ Len(ioLog[c]) = 5

\* the source the priority order gives: provider, then getInvestors, then
\* listInvestors
PrioritySource ==
  CHOOSE m \in AcquisitionMethods \cup {Null} :
    \/ m = "getBalances" /\ cfg.balanceProvider
    \/ m = "getInvestors" /\ ~cfg.balanceProvider /\ cfg.offeringRepo /\ cfg.getInvestors
    \/ /\ m = "listInvestors" /\ ~cfg.balanceProvider /\ cfg.offeringRepo
       /\ ~cfg.getInvestors /\ cfg.listInvestors
    \/ /\ m = Null /\ ~cfg.balanceProvider
       /\ ~(cfg.offeringRepo /\ (cfg.getInvestors \/ cfg.listInvestors))

\* the acquisition calls of a call log
AcquisitionCalls(log) == SelectSeq(log, LAMBDA m : m \in AcquisitionMethods)

\* C25 - a call asks exactly one balance source, the first one present in
\* the order getBalances, getInvestors, listInvestors; when that source
\* returns no rows or fails, the call fails without asking another one
SingleSourceByPriority ==
  \A c \in Calls :
    /\ Len(AcquisitionCalls(ioLog[c])) <= 1
    /\ (pc[c] # "idle" /\ ~InvalidAmount(args[c].revenueAmount) /\ PrioritySource # Null) =>
         AcquisitionCalls(ioLog[c]) = <<PrioritySource>>
    /\ error[c] \in {"NoInvestors", "SourceFailure"} =>
         /\ pc[c] = "failed"
         /\ ioLog[c] = <<PrioritySource>>

\* every source is configured, the provider returned no rows, and neither
\* offeringRepo method was called
SingleSourceByPriorityWitness ==
  \E c \in Calls :
    /\ cfg.balanceProvider /\ cfg.getInvestors /\ cfg.listInvestors
    /\ error[c] = "NoInvestors"
    /\ ioLog[c] = <<"getBalances">>

\* the raw share of row i of call c rounded to the nearest cent, halves up
HalfUpShare(c, i) ==
  RoundCents(balances[c].rows[i].balance * args[c].revenueAmount,
             TotalBalance(balances[c].rows), TRUE)

\* C26 - every payout but the absorbing investor's is its raw share rounded
\* to the nearest cent with halves rounded up, and when these rounded shares
\* sum to revenueAmount no payout is adjusted
HalfUpExceptAbsorber ==
  \A c \in Calls :
    Succeeded(c) =>
      LET n == Len(balances[c].rows)
          shares == [i \in 1..n |-> HalfUpShare(c, i)]
      IN /\ \A i \in 1..n :
              i # EarliestLargest(c) => ParseAmount(payouts[c][i].amount) = shares[i]
         /\ SumSeq(shares) = args[c].revenueAmount => AmountsOf(payouts[c]) = shares

\* the row that took the rounding difference of call c, 0 when there was none
Absorber(c) ==
  IF SumSeq(IndependentlyRounded(c)) = args[c].revenueAmount THEN 0 ELSE EarliestLargest(c)

ZeroBalanceZeroPayout ==
  \A c \in Calls :
    Succeeded(c) =>
      \A i \in 1..Len(balances[c].rows) :
        balances[c].rows[i].balance = 0 =>
          /\ payouts[c][i].amount = ToFixed2(0)
          /\ PayoutsOfRun(run[c].id)[i].amount = ToFixed2(0)
          /\ i # Absorber(c)

\* a zero-balance row stood first and a later row took a rounding difference
ZeroBalanceZeroPayoutWitness ==
  \E c \in Calls :
    /\ Succeeded(c)
    /\ balances[c].rows[1].balance = 0
    /\ Absorber(c) > 1
    /\ payouts[c][1].amount = ToFixed2(0)

\* the payouts of every run are those of the first rows of the weight list
\* of the call that created the run, in that order
PrefixOfWeights ==
  \A j \in 1..Len(runs) :
    \E c \in Calls :
      /\ run[c] = runs[j]
      /\ LET left == PayoutsOfRun(runs[j].id)
         IN /\ Len(left) <= Len(balances[c].rows)
            /\ \A i \in 1..Len(left) :
                 /\ left[i].investor_id = balances[c].rows[i].investor_id
                 /\ left[i].amount = ToFixed2(rounded[c][i].amount)

\* C28 - store prefix invariant: a payout is persisted only for a run that
\* is already in the store, and after every step the payouts of each run are
\* those of a prefix of the weight list of the call that created it
StorePrefix ==
  [][ /\ \A i \in (Len(payoutRows) + 1)..Len(payoutRows') :
           \E k \in 1..Len(runs) : runs[k].id = payoutRows'[i].distribution_run_id
      /\ \A i \in 1..Len(payoutRows') :
           \E k \in 1..Len(runs') : runs'[k].id = payoutRows'[i].distribution_run_id
      /\ PrefixOfWeights'
    ]_vars

\* one call left the payout of its first row only, the other call completed,
\* and their payout writes alternated
StorePrefixWitness ==
  \E c, d \in Calls :
    /\ error[c] = "StoreFailure"
    /\ Len(balances[c].rows) = 2
    /\ Len(PayoutsOfRun(run[c].id)) = 1
    /\ Succeeded(d)
    /\ Len(PayoutsOfRun(run[d].id)) = 2
    /\ payoutRows[2].distribution_run_id = run[c].id

\* ------------------------------------------- idempotency, its properties
\* request q reaches the middleware in this step, guarded, with key k
ArrivesWith(q, k) ==
  /\ ~idem[q].arrived
  /\ idem'[q].arrived
  /\ idem'[q].guarded
  /\ idem'[q].key = k

\* the guarded requests with key k whose response finished with a status < 500
FinishedBelow500(k) ==
  {p \in IdemRequests : /\ idem[p].guarded
                        /\ idem[p].key = k
                        /\ idem[p].completed
                        /\ idem[p].status < 500}

\* the requests with key k whose handler ran and whose response finished with
\* a status < 500
HandledBelow500(k) == {p \in FinishedBelow500(k) : idem[p].reserved}

\* the text `null`
NullText == [chars |-> "json", val |-> 0]

Holders(k) ==
  {p \in IdemRequests : /\ idem[p].reserved
                        /\ idem[p].key = k
                        /\ ~idem[p].completed
                        /\ idem[p].response # "closed"}

\* the handler executions in progress for key k
Executing(k) ==
  {p \in IdemRequests : idem[p].reserved /\ idem[p].key = k /\ idem[p].handler = "running"}

\* C22 - in-flight exclusion: while a request with key k is reserved and its
\* response has neither finished nor closed, every other POST/PATCH request
\* with k is answered 409, marked inflight, without the handler; and at most
\* one handler execution per key is in progress
InflightExclusion ==
  [][ /\ \A q \in IdemRequests, k \in Keys :
           ArrivesWith(q, k) /\ Holders(k) \ {q} # {}
             => /\ idem'[q].status = 409
                /\ idem'[q].idemStatus = "inflight"
                /\ idem'[q].handler = "none"
      /\ \A k \in Keys : Cardinality(Executing(k)') <= 1
    ]_vars

\* C30 - a reservation is never left stuck: a key is in flight only while a
\* request that reserved it has a response neither finished nor closed; it is
\* cached once such a response finished below 500 and only then; a request
\* that finds it neither cached nor held runs the handler; no key is both
\* cached and in flight
ReservationNeverStuck ==
  [][ /\ \A k \in Keys :
           /\ (k \in inFlight' <=> Holders(k)' # {})
           /\ (records'[k] # NoRecord <=> HandledBelow500(k)' # {})
           /\ ~(records'[k] # NoRecord /\ k \in inFlight')
      /\ \A q \in IdemRequests, k \in Keys :
           ArrivesWith(q, k) /\ Holders(k) = {} /\ HandledBelow500(k) = {}
             => idem'[q].reserved /\ idem'[q].handler = "running"
    ]_vars

\* one request's connection closed before its response finished, another
\* one's response finished with a 500, and a third request with the same key
\* runs the handler again
ReservationNeverStuckWitness ==
  \E p, q, r \in IdemRequests :
    /\ idem[p].reserved /\ idem[p].response = "closed" /\ ~idem[p].completed
    /\ idem[q].reserved /\ idem[q].completed /\ idem[q].status = 500
    /\ idem[r].reserved /\ idem[r].handler = "running"
    /\ idem[p].key = idem[q].key /\ idem[q].key = idem[r].key
    /\ idem[r].key \in inFlight

\* ---------------------------------------- webhook delivery, its properties
\* classes of fetch outcomes
Is2xx(outcome) == outcome \in 200..299
Is4xxNot429(outcome) == outcome \in 400..499 /\ outcome # 429
IsRetried(outcome) == outcome = FetchRejected \/ outcome = 429 \/ outcome \in 500..599

\* what holds of a delivery in every state: never more fetch calls than
\* maxRetries; once returned, attempts is the number of fetch calls, no
\* outcome before the last was a 2xx or a 4xx other than 429, success means the
\* last was a 2xx, and it stopped short of maxRetries only on a 2xx or such a 4xx
DeliverySafe ==
  /\ hook.fetches <= hook.maxRetries
  /\ hook.pc = "returned" =>
       LET n == Len(hook.outcomes)
       IN /\ n = hook.fetches
          /\ hook.result.attempts = hook.fetches
          /\ \A i \in 1..(n - 1) : ~Is2xx(hook.outcomes[i]) /\ ~Is4xxNot429(hook.outcomes[i])
          /\ hook.result.success <=> (n >= 1 /\ Is2xx(hook.outcomes[n]))
          /\ n < hook.maxRetries
               => n >= 1 /\ (Is2xx(hook.outcomes[n]) \/ Is4xxNot429(hook.outcomes[n]))
          /\ n >= 1 /\ IsRetried(hook.outcomes[n]) => n = hook.maxRetries

\* C23 - deliver terminates after at most maxRetries fetch calls: it stops at
\* the first 2xx (success) or the first 4xx other than 429 (failure), retries
\* 5xx, 429 and rejected fetches until maxRetries attempts are used, and the
\* attempts it reports is the number of fetch calls it made
DeliverTerminates == []DeliverySafe /\ <>(hook.pc = "returned")

\* a delivery with maxRetries 3 that saw a 500, a rejected fetch and a 429,
\* and returned a failure after three fetch calls
DeliverTerminatesWitness ==
  /\ hook.pc = "returned"
  /\ hook.maxRetries = 3
  /\ hook.outcomes = <<500, FetchRejected, 429>>
  /\ hook.fetches = 3
  /\ hook.result = [success |-> FALSE, attempts |-> 3, statusCode |-> 429,
                    error |-> HttpError(429)]

====
